---- MODULE Spec2Model ----
(***************************************************************************)
(* StockSense (codeyogi911/shopin): the stock health calculator            *)
(* (getStockStatus, calculateSuggestedQuantity) and the per-shop           *)
(* AppSettings store (getAppSettings, the settings page loader and the     *)
(* update_settings action), and the loaders of the pages that list the     *)
(* stock of a SKU (dashboard, inventory list, purchase orders).            *)
(*                                                                         *)
(* The calculator works on JavaScript numbers, i.e. IEEE-754 binary64.     *)
(* The arithmetic below is binary64 with round-to-nearest, ties-to-even,   *)
(* on arbitrary-precision naturals held as little-endian sequences of      *)
(* 15-bit limbs (TLC's integers are 32 bits wide).  Exponent overflow and  *)
(* subnormals are outside the magnitudes the model reaches; a NaN arises   *)
(* only from parsing a form field and never enters the arithmetic.         *)
(***************************************************************************)
EXTENDS Integers, Sequences, FiniteSets, TLC

(***************************************************************************)
(* Arbitrary-precision naturals.                                           *)
(***************************************************************************)
LimbBits == 15
LimbBase == 32768
MantBits == 53

RECURSIVE Pow2(_)
Pow2(n) == IF n = 0 THEN 1 ELSE 2 * Pow2(n - 1)

RECURSIVE BTrim(_)
BTrim(a) ==
  IF a = <<>> THEN <<>>
  ELSE IF a[Len(a)] = 0 THEN BTrim(SubSeq(a, 1, Len(a) - 1)) ELSE a

RECURSIVE BFromInt(_)
BFromInt(n) ==
  IF n = 0 THEN <<>> ELSE <<n % LimbBase>> \o BFromInt(n \div LimbBase)

RECURSIVE BToInt(_)
BToInt(a) ==
  IF a = <<>> THEN 0 ELSE a[1] + LimbBase * BToInt(Tail(a))

BHead(a) == IF a = <<>> THEN 0 ELSE a[1]
BTail(a) == IF a = <<>> THEN <<>> ELSE Tail(a)

RECURSIVE BAddC(_, _, _)
BAddC(a, b, c) ==
  IF a = <<>> /\ b = <<>>
  THEN (IF c = 0 THEN <<>> ELSE <<c>>)
  ELSE LET s == BHead(a) + BHead(b) + c
       IN  <<s % LimbBase>> \o BAddC(BTail(a), BTail(b), s \div LimbBase)

BAdd(a, b) == BAddC(a, b, 0)

\* a - b - br for a >= b + br, before trimming
RECURSIVE BSubB(_, _, _)
BSubB(a, b, br) ==
  IF a = <<>> THEN <<>>
  ELSE LET d == a[1] - BHead(b) - br
       IN  IF d < 0
           THEN <<d + LimbBase>> \o BSubB(Tail(a), BTail(b), 1)
           ELSE <<d>> \o BSubB(Tail(a), BTail(b), 0)

BSub(a, b) == BTrim(BSubB(a, b, 0))

\* -1, 0, 1 as a < b, a = b, a > b (both trimmed)
RECURSIVE BCmpFrom(_, _, _)
BCmpFrom(a, b, i) ==
  IF i = 0 THEN 0
  ELSE IF a[i] < b[i] THEN -1
  ELSE IF a[i] > b[i] THEN 1
  ELSE BCmpFrom(a, b, i - 1)

BCmp(a, b) ==
  IF Len(a) < Len(b) THEN -1
  ELSE IF Len(a) > Len(b) THEN 1
  ELSE BCmpFrom(a, b, Len(a))

\* a * k + c for 0 <= k, c < LimbBase, before trimming
RECURSIVE BMulSmallC(_, _, _)
BMulSmallC(a, k, c) ==
  IF a = <<>> THEN (IF c = 0 THEN <<>> ELSE <<c>>)
  ELSE LET p == a[1] * k + c
       IN  <<p % LimbBase>> \o BMulSmallC(Tail(a), k, p \div LimbBase)

BMulSmall(a, k) == BTrim(BMulSmallC(a, k, 0))

RECURSIVE BMul(_, _)
BMul(a, b) ==
  IF b = <<>> \/ a = <<>> THEN <<>>
  ELSE BAdd(BMulSmall(a, b[1]), BTrim(<<0>> \o BMul(a, Tail(b))))

RECURSIVE IntBitLen(_)
IntBitLen(n) == IF n = 0 THEN 0 ELSE 1 + IntBitLen(n \div 2)

BBitLen(a) ==
  IF a = <<>> THEN 0 ELSE LimbBits * (Len(a) - 1) + IntBitLen(a[Len(a)])

RECURSIVE Zeros(_)
Zeros(n) == IF n = 0 THEN <<>> ELSE <<0>> \o Zeros(n - 1)

\* a * 2^s
BShl(a, s) ==
  IF a = <<>> THEN <<>>
  ELSE Zeros(s \div LimbBits) \o BMulSmall(a, Pow2(s % LimbBits))

\* floor(a / k) for 0 < k <= LimbBase, from the most significant limb down
RECURSIVE BDivSmallFrom(_, _, _, _)
BDivSmallFrom(a, k, i, r) ==
  IF i = 0 THEN <<>>
  ELSE LET x == r * LimbBase + a[i]
       IN  BDivSmallFrom(a, k, i - 1, x % k) \o <<x \div k>>

\* floor(a / 2^s)
BShr(a, s) ==
  LET w == s \div LimbBits
      rest == IF w >= Len(a) THEN <<>> ELSE SubSeq(a, w + 1, Len(a))
  IN  BTrim(BDivSmallFrom(rest, Pow2(s % LimbBits), Len(rest), 0))

BIsOdd(a) == a # <<>> /\ a[1] % 2 = 1

\* the largest q <= est with q * d <= r
RECURSIVE BDigit(_, _, _)
BDigit(r, d, est) ==
  IF BCmp(BMulSmall(d, est), r) > 0 THEN BDigit(r, d, est - 1) ELSE est

\* floor(r * LimbBase^(k-1) / d) and whether the division left a remainder:
\* long division, one limb of the quotient per step, the limb estimated from
\* the leading limbs.  Requires r < d * LimbBase and d[Len(d)] >= LimbBase/2.
RECURSIVE BDivLimbs(_, _, _, _)
BDivLimbs(r, d, k, q) ==
  IF k = 0 THEN [q |-> BTrim(q), inexact |-> r # <<>>]
  ELSE LET n == Len(d)
           top == (IF Len(r) > n THEN r[n + 1] * LimbBase ELSE 0)
                  + (IF Len(r) >= n THEN r[n] ELSE 0)
           est == IF top \div d[n] >= LimbBase THEN LimbBase - 1 ELSE top \div d[n]
           dig == BDigit(r, d, est)
           r1 == BSub(r, BMulSmall(d, dig))
       IN  BDivLimbs(IF r1 = <<>> THEN <<>> ELSE <<0>> \o r1, d, k - 1,
                     <<dig>> \o q)

(***************************************************************************)
(* IEEE-754 binary64 values: zero, +Infinity, or sgn * m * 2^e with        *)
(* 2^52 <= m < 2^53.                                                       *)
(***************************************************************************)
FZero == [k |-> "zero", sgn |-> 1, m |-> <<>>, e |-> 0]
Infinity == [k |-> "inf", sgn |-> 1, m |-> <<>>, e |-> 0]

\* the binary64 nearest to sgn * (n + d) * 2^e, where 0 <= d < 1 and
\* d > 0 iff sticky; ties go to the even mantissa
FRound(sgn, n, e, sticky) ==
  LET len == BBitLen(n)
  IN  IF n = <<>> THEN FZero
      ELSE IF len <= MantBits
      THEN [k |-> "fin", sgn |-> sgn, m |-> BShl(n, MantBits - len),
            e |-> e - (MantBits - len)]
      ELSE LET s == len - MantBits
               q == BShr(n, s)
               r == BSub(n, BShl(q, s))
               c == BCmp(r, BShl(<<1>>, s - 1))
               up == \/ c > 0
                     \/ c = 0 /\ (sticky \/ BIsOdd(q))
               m1 == IF up THEN BAdd(q, <<1>>) ELSE q
           IN  IF BBitLen(m1) > MantBits
               THEN [k |-> "fin", sgn |-> sgn, m |-> BShr(m1, 1), e |-> e + s + 1]
               ELSE [k |-> "fin", sgn |-> sgn, m |-> m1, e |-> e + s]

\* an integer as a Number (exact below 2^53)
FromInt(n) ==
  IF n = 0 THEN FZero
  ELSE FRound(IF n < 0 THEN -1 ELSE 1, BFromInt(IF n < 0 THEN -n ELSE n), 0, FALSE)

\* x * y
FMul(x, y) ==
  IF x.k = "zero" \/ y.k = "zero" THEN FZero
  ELSE FRound(x.sgn * y.sgn, BMul(x.m, y.m), x.e + y.e, FALSE)

\* x / y for finite x and finite non-zero y: the mantissas are shifted so
\* that the divisor's leading limb is full, then divided to 5 limbs
NormShift == 7
QuotLimbs == 5
FDiv(x, y) ==
  IF x.k = "zero" THEN FZero
  ELSE LET d == BDivLimbs(BShl(x.m, NormShift), BShl(y.m, NormShift),
                          QuotLimbs, <<>>)
       IN  FRound(x.sgn * y.sgn, d.q, x.e - y.e - LimbBits * (QuotLimbs - 1),
                  d.inexact)

\* x + y for finite x, y
FAdd(x, y) ==
  IF x.k = "zero" THEN y
  ELSE IF y.k = "zero" THEN x
  ELSE LET e == IF x.e < y.e THEN x.e ELSE y.e
           a == BShl(x.m, x.e - e)
           b == BShl(y.m, y.e - e)
           c == BCmp(a, b)
       IN  IF x.sgn = y.sgn THEN FRound(x.sgn, BAdd(a, b), e, FALSE)
           ELSE IF c = 0 THEN FZero
           ELSE IF c > 0 THEN FRound(x.sgn, BSub(a, b), e, FALSE)
           ELSE FRound(y.sgn, BSub(b, a), e, FALSE)

\* x < y
FLess(x, y) ==
  IF x.k = "inf" THEN FALSE
  ELSE IF y.k = "inf" THEN TRUE
  ELSE LET d == FAdd(x, [y EXCEPT !.sgn = -y.sgn])
       IN  d.k = "fin" /\ d.sgn = -1

\* Math.ceil(x) as an integer, for finite x of magnitude below 2^31
FCeil(x) ==
  IF x.k = "zero" THEN 0
  ELSE LET fl == IF x.e >= 0 THEN BShl(x.m, x.e) ELSE BShr(x.m, -x.e)
           frac == x.e < 0 /\ BShl(fl, -x.e) # x.m
           n == BToInt(fl)
       IN  IF x.sgn = 1 THEN (IF frac THEN n + 1 ELSE n) ELSE -n

(***************************************************************************)
(* State.                                                                  *)
(*   appSettings  the rows of the AppSettings table                        *)
(*   req          the requests in flight: which handler, for which shop,   *)
(*                where it stands, what it read and what it returned       *)
(*   saved        per shop, the form of the last update_settings that      *)
(*                answered success: true (history, for the round trip)     *)
(*   calc         one call of the stock health calculator: its arguments   *)
(*                and what each function returned                          *)
(*   page         one load of a page that lists the stock of a SKU: the    *)
(*                orders of the shop, the orders response being summed,    *)
(*                and what the page shows                                  *)
(***************************************************************************)
VARIABLES appSettings, req, saved, calc, page,
          purchaseOrders, fetcher, poPage, dashboard

vars == <<appSettings, req, saved, calc, page,
          purchaseOrders, fetcher, poPage, dashboard>>

\* the purchase orders, the purchase-orders page and the dashboard's summary
orderVars == <<purchaseOrders, fetcher, poPage, dashboard>>

MaxStock == 14

Shops == {"a.myshopify.com", "b.myshopify.com"}
\* two requests in flight at a time, each slot reused for request after request
Requests == {1, 2}

(***************************************************************************)
(* Text of numbers as it arrives in a form field or a source literal:      *)
(* <<>> is an absent or empty field, <<n>> the integer n, <<n, d>> the     *)
(* decimal n/d with d a power of ten, and NotANumber text that starts with *)
(* no number ('abc'), which parseInt and parseFloat turn into NaN.  A      *)
(* parsed form names its NaN fields in the set nan (their number is 0      *)
(* there and never looked at).                                             *)
(***************************************************************************)
NotANumber == <<0, 0>>

\* formData.get(field) || fallback
orFallback(text, fallback) == IF text = <<>> THEN fallback ELSE text

isNaN(text, fallback) == orFallback(text, fallback) = NotANumber

\* parseInt reads the digits before the decimal point
parseInt(text, fallback) ==
  LET t == orFallback(text, fallback)
  IN  IF t = NotANumber THEN 0
      ELSE IF Len(t) = 1 THEN t[1]
      ELSE IF t[1] >= 0 THEN t[1] \div t[2] ELSE -((-t[1]) \div t[2])

\* the binary64 nearest to the decimal
parseFloat(text, fallback) ==
  LET t == orFallback(text, fallback)
  IN  IF t = NotANumber THEN FZero
      ELSE IF Len(t) = 1 THEN FromInt(t[1])
      ELSE FDiv(FromInt(t[1]), FromInt(t[2]))

\* Number.prototype.toString and JSON.stringify of a Number: the shortest
\* decimal that parseFloat reads back as x, looked for up to DecimalDigits
\* digits after the point
DecimalDigits == 3

RECURSIVE Pow10(_)
Pow10(k) == IF k = 0 THEN 1 ELSE 10 * Pow10(k - 1)

RECURSIVE shortestDecimal(_, _)
shortestDecimal(x, k) ==
  IF k > DecimalDigits THEN NotANumber
  ELSE LET scale == Pow10(k)
           up == FCeil(FMul(x, FromInt(scale)))
           reads(n) == x = IF k = 0 THEN FromInt(n)
                           ELSE FDiv(FromInt(n), FromInt(scale))
           text(n) == IF k = 0 THEN <<n>> ELSE <<n, scale>>
       IN  IF reads(up) THEN text(up)
           ELSE IF reads(up - 1) THEN text(up - 1)
           ELSE shortestDecimal(x, k + 1)

numberToString(x) == shortestDecimal(x, 0)

booleanToString(b) == IF b THEN "true" ELSE "false"

\* the literal 0.1: 0x1999999999999A * 2^-56
DefaultReorderPoint ==
  [k |-> "fin", sgn |-> 1, m |-> <<6554, 13107, 26214, 204>>, e |-> -56]

DefaultSettings ==
  [stockCoverageDays |-> 30, lowStockThreshold |-> 7,
   mediumStockThreshold |-> 14, reorderPoint |-> DefaultReorderPoint,
   emailNotifications |-> TRUE]

(***************************************************************************)
(* The stock health calculator (app/lib/settings.server.ts).               *)
(***************************************************************************)
Max(a, b) == IF a > b THEN a ELSE b

getStockStatus(currentStock, salesVelocity, settings) ==
  LET daysOfStock == IF FLess(FZero, salesVelocity)
                     THEN FDiv(FromInt(currentStock), salesVelocity)
                     ELSE Infinity
  IN  IF FLess(daysOfStock, FromInt(settings.lowStockThreshold)) THEN "low"
      ELSE IF FLess(daysOfStock, FromInt(settings.mediumStockThreshold)) THEN "medium"
      ELSE "good"

\* calculateSuggestedQuantity without the early return of line 46
calculateSuggestedQuantity_noZeroReturn(currentStock, salesVelocity, settings) ==
  LET targetStock == FCeil(FMul(salesVelocity, FromInt(settings.stockCoverageDays)))
      suggestedQuantity == Max(0, targetStock - currentStock)
  IN  FCeil(FMul(FromInt(suggestedQuantity),
                 FAdd(FromInt(1), settings.reorderPoint)))

\* calculateSuggestedQuantity with Math.floor for Math.ceil on line 48
calculateSuggestedQuantity_floorTarget(currentStock, salesVelocity, settings) ==
  IF ~FLess(FZero, salesVelocity) THEN 0
  ELSE LET days == FMul(salesVelocity, FromInt(settings.stockCoverageDays))
           targetStock == IF FromInt(FCeil(days)) = days THEN FCeil(days)
                          ELSE FCeil(days) - 1
           suggestedQuantity == Max(0, targetStock - currentStock)
       IN  FCeil(FMul(FromInt(suggestedQuantity),
                      FAdd(FromInt(1), settings.reorderPoint)))

calculateSuggestedQuantity(currentStock, salesVelocity, settings) ==
  IF ~FLess(FZero, salesVelocity) THEN 0
  ELSE LET targetStock == FCeil(FMul(salesVelocity, FromInt(settings.stockCoverageDays)))
           suggestedQuantity == Max(0, targetStock - currentStock)
       IN  FCeil(FMul(FromInt(suggestedQuantity),
                      FAdd(FromInt(1), settings.reorderPoint)))

\* the velocity the loaders pass: salesLast90Days / 90
SalesWindowDays == 90
salesVelocity(salesLast90Days) ==
  FDiv(FromInt(salesLast90Days), FromInt(SalesWindowDays))

(***************************************************************************)
(* The AppSettings table: id is the key, shop is unique.  A row to be      *)
(* inserted has no id until create gives it a fresh one: the shop and the  *)
(* number of the insert among the shop's inserts.                          *)
(***************************************************************************)
NoRow == [id |-> <<>>, shop |-> "", stockCoverageDays |-> 0, lowStockThreshold |-> 0,
          mediumStockThreshold |-> 0, reorderPoint |-> FZero,
          emailNotifications |-> FALSE]

Row(shop, s) ==
  [id |-> <<>>, shop |-> shop, stockCoverageDays |-> s.stockCoverageDays,
   lowStockThreshold |-> s.lowStockThreshold,
   mediumStockThreshold |-> s.mediumStockThreshold,
   reorderPoint |-> s.reorderPoint,
   emailNotifications |-> s.emailNotifications]

SettingsOf(row) ==
  [stockCoverageDays |-> row.stockCoverageDays,
   lowStockThreshold |-> row.lowStockThreshold,
   mediumStockThreshold |-> row.mediumStockThreshold,
   reorderPoint |-> row.reorderPoint,
   emailNotifications |-> row.emailNotifications]

\* findUnique with a where clause that matches no row
findUnique_noMatch(rows, shop) == NoRow

\* db.appSettings.findUnique({ where: { shop } }): the row, or NoRow for null
findUnique(rows, shop) ==
  IF \E r \in rows : r.shop = shop
  THEN CHOOSE r \in rows : r.shop = shop
  ELSE NoRow

\* a create that the unique index on shop never stops
createConflicts_noUniqueIndex(rows, row) == FALSE

\* db.appSettings.create({ data }): the unique index on shop rejects a second row
createConflicts(rows, row) == \E r \in rows : r.shop = row.shop

\* the row is inserted under a fresh id (rows are never deleted)
create(rows, row) ==
  rows \cup {[row EXCEPT !.id = <<row.shop,
                Cardinality({r \in rows : r.shop = row.shop}) + 1>>]}

\* an upsert that only inserts: the row of a shop that has one stays as it is
upsert_createOnly(rows, row) ==
  IF \E r \in rows : r.shop = row.shop THEN rows ELSE create(rows, row)

\* db.appSettings.upsert({ where: { shop }, update, create }): the shop's row
\* takes the new values and keeps its id, or the row is inserted
upsert(rows, row) ==
  IF \E r \in rows : r.shop = row.shop
  THEN LET old == CHOOSE r \in rows : r.shop = row.shop
       IN  (rows \ {old}) \cup {[row EXCEPT !.id = old.id]}
  ELSE create(rows, row)

\* Prisma rejects a NaN argument before it writes: the upsert throws
upsertThrows(s) == s.nan # {}

(***************************************************************************)
(* The update_settings form (app/routes/app.settings.tsx, action).         *)
(***************************************************************************)
Form(days, low, medium, reorder, email) ==
  [stockCoverageDays |-> days, lowStockThreshold |-> low,
   mediumStockThreshold |-> medium, reorderPoint |-> reorder,
   emailNotifications |-> email]

\* lines 119-123: the fields as parsed, with the fallbacks of absent fields
parseForm(form) ==
  [stockCoverageDays |-> parseInt(form.stockCoverageDays, <<30>>),
   lowStockThreshold |-> parseInt(form.lowStockThreshold, <<7>>),
   mediumStockThreshold |-> parseInt(form.mediumStockThreshold, <<14>>),
   reorderPoint |-> parseFloat(form.reorderPoint, <<1, 10>>),
   emailNotifications |-> form.emailNotifications = "true",
   nan |-> {f \in {"stockCoverageDays", "lowStockThreshold",
                   "mediumStockThreshold", "reorderPoint"} :
              isNaN(form[f], <<1>>)}]

CoverageError == "Stock coverage days must be between 1 and 365"
ThresholdError == "Low stock threshold must be less than medium stock threshold"
UpdateError == "Failed to update settings"

\* validation without the check of lines 126-131
validationError_noCoverageCheck(s) ==
  IF /\ {"lowStockThreshold", "mediumStockThreshold"} \cap s.nan = {}
     /\ s.lowStockThreshold >= s.mediumStockThreshold
  THEN ThresholdError
  ELSE ""

\* validation without the check of lines 133-138
validationError_noThresholdCheck(s) ==
  IF /\ "stockCoverageDays" \notin s.nan
     /\ (s.stockCoverageDays < 1 \/ s.stockCoverageDays > 365)
  THEN CoverageError
  ELSE ""

\* lines 125-138: the error the action answers with, "" when it accepts; a
\* comparison with NaN is false
validationError(s) ==
  IF /\ "stockCoverageDays" \notin s.nan
     /\ (s.stockCoverageDays < 1 \/ s.stockCoverageDays > 365)
  THEN CoverageError
  ELSE IF /\ {"lowStockThreshold", "mediumStockThreshold"} \cap s.nan = {}
          /\ s.lowStockThreshold >= s.mediumStockThreshold
  THEN ThresholdError
  ELSE ""

\* the forms the requests of the model submit
Forms ==
  { Form(<<457, 10>>, <<15>>, <<30>>, <<25, 100>>, "false"),
    Form(<<>>, <<>>, <<>>, <<>>, ""),
    Form(<<0>>, <<7>>, <<14>>, <<1>>, "true"),
    Form(<<30>>, <<14>>, <<7>>, <<1>>, "true"),
    Form(<<365>>, <<-3>>, <<0>>, <<-2>>, "true"),
    Form(NotANumber, <<7>>, <<14>>, <<0>>, "true") }

(***************************************************************************)
(* The PurchaseOrder table (prisma/schema.prisma, models PurchaseOrder and *)
(* PurchaseOrderItem) and the create_purchase_order action of the          *)
(* purchase-orders route.  The table is the sequence of its rows in the    *)
(* order of their createdAt; a row holds its items.  The products of a     *)
(* form are what JSON.parse gives: a quantity is a number, <<n>>, or null, *)
(* <<>>.                                                                   *)
(***************************************************************************)
\* the most purchase orders the table holds
MaxPurchaseOrders == 2

JsonNull == <<>>

Product(sku, title, quantity) ==
  [sku |-> sku, title |-> title, quantity |-> quantity]

\* sum + p.quantity: null counts as 0
plusQuantity(sum, quantity) ==
  IF quantity = JsonNull THEN sum ELSE sum + quantity[1]

\* products.reduce(..., 0) over the first n products
RECURSIVE reduceQuantity(_, _)
reduceQuantity(products, n) ==
  IF n = 0 THEN 0
  ELSE plusQuantity(reduceQuantity(products, n - 1), products[n].quantity)

\* a total that counts the products
totalItems_countsProducts(products) == Len(products)

\* const totalItems = products.reduce((sum, p) => sum + p.quantity, 0)
totalItems(products) == reduceQuantity(products, Len(products))

\* products.map(...) of the nested create
PurchaseOrderItem(p) ==
  [productId |-> p.sku, sku |-> p.sku, title |-> p.title,
   quantity |-> p.quantity[1], unitPrice |-> 0, totalPrice |-> 0,
   received |-> 0]

\* the data of prisma.purchaseOrder.create with the defaults of the schema
PurchaseOrder(id, shop, vendor, products) ==
  [id |-> id, shop |-> shop, vendor |-> vendor, status |-> "draft",
   totalItems |-> totalItems(products), totalValue |-> 0,
   items |-> [i \in 1 .. Len(products) |-> PurchaseOrderItem(products[i])]]

\* PurchaseOrderItem.quantity is an Int: the create rejects an item without
\* one, and the order is not stored either
createThrows(products) ==
  \E i \in 1 .. Len(products) : products[i].quantity = JsonNull

Reverse(seq) == [i \in 1 .. Len(seq) |-> seq[Len(seq) + 1 - i]]

\* prisma.purchaseOrder.findMany({ where: { shop }, orderBy: createdAt desc })
findMany_allShops(rows, shop) == Reverse(rows)

findMany(rows, shop) ==
  LET ofShop(r) == r.shop = shop
  IN  Reverse(SelectSeq(rows, ofShop))

\* what the fetcher of a page holds: the form it submitted and, once the
\* action has answered, the answer
IdleFetcher ==
  [state |-> "idle", shop |-> "", vendor |-> "", products |-> <<>>,
   data |-> <<>>]

(***************************************************************************)
(* Requests.                                                               *)
(***************************************************************************)
NoForm == Form(<<>>, <<>>, <<>>, <<>>, "")

IdleReq ==
  [kind |-> "none", shop |-> "", pc |-> "idle", form |-> NoForm,
   found |-> NoRow, settings |-> SettingsOf(NoRow), created |-> FALSE,
   success |-> FALSE, error |-> "", purchaseOrders |-> <<>>]

IdleCalc ==
  [currentStock |-> 0, salesLast90Days |-> 0, reorderPointText |-> <<1, 10>>,
   settings |-> DefaultSettings, called |-> {}, stockStatus |-> "",
   suggestedQuantity |-> 0]

\* no page is being loaded
IdlePage ==
  [kind |-> "none", pc |-> "idle", shop |-> "", today |-> <<1, 1>>,
   orders |-> [count |-> 0, quantity |-> 0, age |-> 0, lineItems |-> 0],
   currentStock |-> 0, settings |-> SettingsOf(NoRow), answered |-> FALSE,
   response |-> <<>>, salesMap |-> 0, salesLast90Days |-> 0,
   stockStatus |-> "", products |-> <<>>, error |-> ""]

\* the purchase-orders page before its loader data: the useState values of
\* lines 324-328
IdlePoPage ==
  [shop |-> "", products |-> <<>>, selectedVendor |-> "all",
   selectedProducts |-> <<>>, isCreateModalOpen |-> FALSE,
   showToast |-> FALSE, toastMessage |-> ""]

\* no dashboard is being loaded
IdleDashboard ==
  [pc |-> "idle", variants |-> <<>>, response |-> <<>>]

\* no purchase order, no page
NoOrders ==
  /\ purchaseOrders = <<>>
  /\ fetcher = IdleFetcher
  /\ poPage = IdlePoPage
  /\ dashboard = IdleDashboard

Init ==
  /\ appSettings = {}
  /\ req = [p \in Requests |-> IdleReq]
  /\ saved = [shop \in Shops |-> <<>>]
  /\ calc = IdleCalc
  /\ page = IdlePage
  /\ NoOrders

\* getAppSettings lines 4-6 and 9, 22; settings loader lines 46-51, 78-88:
\* the request reads the shop's row and returns it when there is one
FindUnique(p, kind, shop) ==
  /\ req[p].pc = "idle"
  /\ LET found == findUnique(appSettings, shop)
     IN  req' = [req EXCEPT ![p] =
                   [IdleReq EXCEPT !.kind = kind, !.shop = shop,
                                   !.found = found,
                                   !.pc = IF found = NoRow THEN "create" ELSE "done",
                                   !.success = found # NoRow,
                                   !.settings = SettingsOf(found)]]
  /\ UNCHANGED <<appSettings, saved, calc, page, orderVars>>

\* getAppSettings lines 10-19, 22; settings loader lines 52-61, 78-107: the
\* request that read no row inserts the defaults.  A row inserted meanwhile
\* makes the insert fail on the unique index: getAppSettings rejects, the
\* loader's catch answers with the defaults and an error.
CreateDefault(p) ==
  /\ req[p].pc = "create"
  /\ LET row == Row(req[p].shop, DefaultSettings)
     IN  IF createConflicts(appSettings, row)
         THEN /\ req' = [req EXCEPT ![p] =
                    IF req[p].kind = "loader"
                    THEN [@ EXCEPT !.pc = "done", !.settings = DefaultSettings,
                                   !.error = "Failed to load settings"]
                    ELSE [@ EXCEPT !.pc = "failed",
                                   !.error = "Unique constraint failed"]]
              /\ UNCHANGED appSettings
         ELSE /\ appSettings' = create(appSettings, row)
              /\ req' = [req EXCEPT ![p] =
                    [@ EXCEPT !.pc = "done", !.settings = SettingsOf(row),
                              !.created = TRUE, !.success = TRUE]]
  /\ UNCHANGED <<saved, calc, page, orderVars>>

\* an update_settings that writes the row before it validates
UpdateSettings_upsertFirst(p, shop, form) ==
  /\ req[p].pc = "idle"
  /\ LET s == parseForm(form)
         err == validationError(s)
         ok == err = "" /\ ~upsertThrows(s)
     IN  /\ req' = [req EXCEPT ![p] =
               [IdleReq EXCEPT !.kind = "update_settings", !.shop = shop,
                               !.pc = "done", !.form = form,
                               !.settings = SettingsOf(s), !.success = ok,
                               !.error = IF err # "" THEN err
                                         ELSE IF ok THEN "" ELSE UpdateError]]
         /\ appSettings' = IF ~upsertThrows(s)
                           THEN upsert(appSettings, Row(shop, s))
                           ELSE appSettings
         /\ saved' = IF ok THEN [saved EXCEPT ![shop] = <<form>>] ELSE saved
  /\ UNCHANGED <<calc, page, orderVars>>

\* the update_settings action, lines 117-171: the form is parsed and
\* validated, the accepted values are upserted; an upsert that throws is
\* caught and answered with success: false
UpdateSettings(p, shop, form) ==
  /\ req[p].pc = "idle"
  /\ LET s == parseForm(form)
         err == validationError(s)
         ok == err = "" /\ ~upsertThrows(s)
     IN  /\ req' = [req EXCEPT ![p] =
               [IdleReq EXCEPT !.kind = "update_settings", !.shop = shop,
                               !.pc = "done", !.form = form,
                               !.settings = SettingsOf(s), !.success = ok,
                               !.error = IF err # "" THEN err
                                         ELSE IF ok THEN "" ELSE UpdateError]]
         /\ appSettings' = IF ok THEN upsert(appSettings, Row(shop, s))
                           ELSE appSettings
         /\ saved' = IF ok THEN [saved EXCEPT ![shop] = <<form>>] ELSE saved
  /\ UNCHANGED <<calc, page, orderVars>>

\* the response is delivered
Respond(p) ==
  /\ req[p].pc \in {"done", "failed", "loaded"}
  /\ ~(req[p].kind = "purchase-orders" /\ req[p].pc = "done")
  /\ req' = [req EXCEPT ![p] = IdleReq]
  /\ UNCHANGED <<appSettings, saved, calc, page, orderVars>>

Next ==
  \E p \in Requests :
    \/ \E shop \in Shops : FindUnique(p, "getAppSettings", shop)
    \/ \E shop \in Shops : FindUnique(p, "loader", shop)
    \/ CreateDefault(p)
    \/ \E shop \in Shops, form \in Forms : UpdateSettings(p, shop, form)
    \/ Respond(p)

Spec == Init /\ [][Next]_vars

(***************************************************************************)
(* Calls of the calculator, with the arguments the loaders can pass: the   *)
(* stock of a variant, its sales of the last 90 days, and a settings       *)
(* record that update_settings accepts or getAppSettings creates.          *)
(***************************************************************************)
Stocks == (-1 .. MaxStock) \cup {23}
Sales == {0, 1, 30, 69, 90, 138, 180}

CalcForms ==
  { Form(d, t[1], t[2], r, "true") :
      d \in {<<1>>, <<10>>, <<30>>, <<365>>},
      t \in {<< <<7>>, <<14>> >>, << <<15>>, <<30>> >>, << <<-3>>, <<0>> >>},
      r \in {<<0>>, <<1, 10>>, <<25, 100>>, <<1>>, <<-2>>} }

InitCalc ==
  /\ appSettings = {}
  /\ req = [p \in Requests |-> IdleReq]
  /\ saved = [shop \in Shops |-> <<>>]
  /\ page = IdlePage
  /\ NoOrders
  /\ \E stock \in Stocks, sales \in Sales, form \in CalcForms :
       /\ validationError(parseForm(form)) = ""
       /\ calc = [currentStock |-> stock, salesLast90Days |-> sales,
                  reorderPointText |-> form.reorderPoint,
                  settings |-> SettingsOf(parseForm(form)), called |-> {},
                  stockStatus |-> "", suggestedQuantity |-> 0]

CallGetStockStatus ==
  /\ "getStockStatus" \notin calc.called
  /\ calc' = [calc EXCEPT
       !.called = @ \cup {"getStockStatus"},
       !.stockStatus = getStockStatus(calc.currentStock,
                         salesVelocity(calc.salesLast90Days), calc.settings)]
  /\ UNCHANGED <<appSettings, req, saved, page, orderVars>>

CallCalculateSuggestedQuantity ==
  /\ "calculateSuggestedQuantity" \notin calc.called
  /\ calc' = [calc EXCEPT
       !.called = @ \cup {"calculateSuggestedQuantity"},
       !.suggestedQuantity = calculateSuggestedQuantity(calc.currentStock,
                         salesVelocity(calc.salesLast90Days), calc.settings)]
  /\ UNCHANGED <<appSettings, req, saved, page, orderVars>>

NextCalc == CallGetStockStatus \/ CallCalculateSuggestedQuantity

SpecCalc == InitCalc /\ [][NextCalc]_vars

(***************************************************************************)
(* The pages that list the stock of a SKU: the dashboard                   *)
(* (app/routes/app._index.tsx), the inventory list and the purchase-orders *)
(* page.  Each loader asks for the shop's orders that hold one of its      *)
(* SKUs, newest first, sums the quantities sold per SKU and derives the    *)
(* daily velocity and the stock status.  The model follows one SKU, Sku;   *)
(* the other line items of an order are of OtherSku.  Dates are day        *)
(* numbers of a calendar of 365-day years.                                 *)
(***************************************************************************)
Sku == "SKU-A"
OtherSku == "SKU-X"

\* orders(first: 100, ...) and lineItems(first: 50)
OrdersFirst == 100
LineItemsFirst == 50
\* the most orders of the SKU a shop of the model has
MaxOrders == 101

DaysInMonth == <<31, 28, 31, 30, 31, 30, 31, 31, 30, 31, 30, 31>>

RECURSIVE DaysBefore(_)
DaysBefore(month) ==
  IF month = 1 THEN 0 ELSE DaysInMonth[month - 1] + DaysBefore(month - 1)

\* the day number of a Date of year 1: a day past the end of its month
\* counts on into the next month, a month below January is of year 0
DayNumber(month, day) ==
  IF month < 1 THEN DaysBefore(month + 12) + day
  ELSE 365 + DaysBefore(month) + day

\* threeMonthsAgo.setMonth(threeMonthsAgo.getMonth() - 3)
threeMonthsAgo(today) == DayNumber(today[1] - 3, today[2])

\* the orders of the shop that hold the SKU, newest first: an order's line
\* item of the SKU is its last one
lineItemsOf(o) ==
  [j \in 1 .. o.lineItems |->
     IF j = o.lineItems THEN [sku |-> Sku, quantity |-> o.quantity]
     ELSE [sku |-> OtherSku, quantity |-> 1]]

ordersOf(o, today) ==
  [i \in 1 .. o.count |->
     [createdAt |-> DayNumber(today[1], today[2]) - o.age,
      lineItems |-> lineItemsOf(o)]]

First(seq, n) == IF Len(seq) <= n THEN seq ELSE SubSeq(seq, 1, n)

\* what the orders query answers with: the first OrdersFirst orders, each with
\* its first LineItemsFirst line items
ordersResponse(o, today) ==
  LET all == ordersOf(o, today)
      page1 == First(all, OrdersFirst)
  IN  [i \in 1 .. Len(page1) |->
         [page1[i] EXCEPT !.lineItems = First(@, LineItemsFirst)]]

\* the inner forEach: the quantities of the line items lo .. hi that are of
\* the SKU (the integer sum is taken by halves to keep the evaluation shallow)
RECURSIVE sumLineItems(_, _, _)
sumLineItems(items, lo, hi) ==
  IF lo > hi THEN 0
  ELSE IF lo = hi
  THEN (IF items[lo].sku = Sku THEN items[lo].quantity ELSE 0)
  ELSE LET mid == (lo + hi) \div 2
       IN  sumLineItems(items, lo, mid) + sumLineItems(items, mid + 1, hi)

\* the outer forEach over the orders lo .. hi: orders with
\* orderDate >= threeMonthsAgo count
RECURSIVE sumOrders(_, _, _, _)
sumOrders(orders, since, lo, hi) ==
  IF lo > hi THEN 0
  ELSE IF lo = hi
  THEN (IF orders[lo].createdAt >= since
        THEN sumLineItems(orders[lo].lineItems, 1, Len(orders[lo].lineItems))
        ELSE 0)
  ELSE LET mid == (lo + hi) \div 2
       IN  sumOrders(orders, since, lo, mid) + sumOrders(orders, since, mid + 1, hi)

\* Math.round(x) for x >= 0
MathRound(x) == -FCeil([FAdd(x, FDiv(FromInt(1), FromInt(2))) EXCEPT !.sgn = -1])

\* salesVelocity: Math.round(salesVelocity * 100) / 100 of the items the
\* dashboard and the inventory list hold
roundedVelocity(salesLast90Days) ==
  FDiv(FromInt(MathRound(FMul(salesVelocity(salesLast90Days), FromInt(100)))),
       FromInt(100))

\* the badge of the inventory list, and the dashboard's critical (low),
\* warning (medium) and remaining (good) items: thresholds 7 and 14
getStockStatusBadge(stock, velocity) ==
  LET daysOfStock == IF FLess(FZero, velocity)
                     THEN FDiv(FromInt(stock), velocity)
                     ELSE Infinity
  IN  IF FLess(daysOfStock, FromInt(7)) THEN "low"
      ELSE IF FLess(daysOfStock, FromInt(14)) THEN "medium"
      ELSE "good"

PageKinds == {"dashboard", "inventory", "purchase-orders"}
Todays == {<<11, 3>>, <<5, 31>>, <<3, 1>>}
OrderCounts == {0, 1, 2} \cup (OrdersFirst .. MaxOrders)
OrderAges == {0, 89, 91}
OrderQuantities == {1, 3}
OrderLineItems == {1, 2, LineItemsFirst + 1}
PageStocks == {0, 23}
StoredSettings ==
  { DefaultSettings,
    SettingsOf(parseForm(Form(<<45>>, <<15>>, <<30>>, <<0>>, "true"))) }

\* a page load starts: the shop has its settings row and its orders; the
\* purchase-orders loader reads the settings (getAppSettings), the products
\* query has answered with the SKU and its stock
InitPages ==
  /\ req = [p \in Requests |-> IdleReq]
  /\ saved = [shop \in Shops |-> <<>>]
  /\ calc = IdleCalc
  /\ NoOrders
  /\ \E shop \in {"a.myshopify.com"}, stored \in StoredSettings,
        kind \in PageKinds, today \in Todays, count \in OrderCounts,
        age \in OrderAges, quantity \in OrderQuantities,
        lineItems \in OrderLineItems, stock \in PageStocks :
       /\ appSettings = create({}, Row(shop, stored))
       /\ page = [IdlePage EXCEPT
            !.kind = kind, !.pc = "orders", !.shop = shop, !.today = today,
            !.orders = [count |-> count, quantity |-> quantity, age |-> age,
                        lineItems |-> lineItems],
            !.currentStock = stock,
            !.settings = IF kind = "purchase-orders" THEN stored
                         ELSE SettingsOf(NoRow)]

\* the orders query answers
OrdersResponse ==
  /\ page.pc = "orders"
  /\ page' = [page EXCEPT !.pc = "sum", !.answered = TRUE,
                          !.response = ordersResponse(page.orders, page.today)]
  /\ UNCHANGED <<appSettings, req, saved, calc, orderVars>>

\* a failure of the orders query that reaches the catch of the loader
OrdersFail_throws ==
  /\ page.pc = "orders"
  /\ page' = [page EXCEPT !.pc = "done",
                          !.error = "Failed to load inventory data"]
  /\ UNCHANGED <<appSettings, req, saved, calc, orderVars>>

\* the orders query throws or answers with errors: the loader goes on
\* without sales
OrdersFail ==
  /\ page.pc = "orders"
  /\ page' = [page EXCEPT !.pc = "combine"]
  /\ UNCHANGED <<appSettings, req, saved, calc, orderVars>>

\* the forEach over the response fills salesMap
SumOrders ==
  /\ page.pc = "sum"
  /\ page' = [page EXCEPT !.pc = "combine", !.response = <<>>,
                          !.salesMap = sumOrders(page.response,
                                                 threeMonthsAgo(page.today),
                                                 1, Len(page.response))]
  /\ UNCHANGED <<appSettings, req, saved, calc, orderVars>>

\* inventoryMap.forEach: the SKU's item with its sales and its status, and
\* the answer with error: null
Combine ==
  /\ page.pc = "combine"
  /\ page' = [page EXCEPT
       !.pc = "done",
       !.salesLast90Days = page.salesMap,
       !.products = << [sku |-> Sku, currentStock |-> page.currentStock,
                        salesLast90Days |-> page.salesMap,
                        salesVelocity |-> roundedVelocity(page.salesMap)] >>,
       !.error = "null",
       !.stockStatus =
          IF page.kind = "purchase-orders"
          THEN getStockStatus(page.currentStock, salesVelocity(page.salesMap),
                              page.settings)
          ELSE getStockStatusBadge(page.currentStock,
                                   roundedVelocity(page.salesMap))]
  /\ UNCHANGED <<appSettings, req, saved, calc, orderVars>>

NextPages == OrdersResponse \/ OrdersFail \/ SumOrders \/ Combine

SpecPages == InitPages /\ [][NextPages]_vars

(***************************************************************************)
(* The purchase orders of the shops: the loader of the purchase-orders     *)
(* route reads the session's shop's settings (getAppSettings) and then its *)
(* purchase orders; the action stores the order of a posted form.  The     *)
(* requests of the settings page run beside them.                          *)
(***************************************************************************)
\* the forms a client posts: two products, nothing at all (the action reads
\* '' and '[]'), and a product whose quantity is null
Submissions ==
  { [vendor |-> "Acme",
     products |-> << Product("SKU-A", "Widget", <<5>>),
                     Product("SKU-B", "Gadget", <<-2>>) >>],
    [vendor |-> "", products |-> <<>>],
    [vendor |-> "Acme",
     products |-> << Product("SKU-A", "Widget", <<2>>),
                     Product("SKU-B", "Gadget", JsonNull) >>] }

OrderRequests == {1}

OrderForms ==
  { Form(<<457, 10>>, <<15>>, <<30>>, <<25, 100>>, "false"),
    Form(<<30>>, <<14>>, <<7>>, <<1>>, "true") }

\* purchaseOrders.map(...) of the loader's answer, lines 232-240
poSummary(po) ==
  [id |-> po.id, vendor |-> po.vendor, status |-> po.status,
   totalItems |-> po.totalItems, totalValue |-> po.totalValue]

\* the purchase-orders loader after getAppSettings, lines 217-247: the
\* purchase orders of the session's shop, newest first
FindMany(p) ==
  /\ req[p].kind = "purchase-orders"
  /\ req[p].pc = "done"
  /\ LET rows == findMany(purchaseOrders, req[p].shop)
     IN  req' = [req EXCEPT ![p].pc = "loaded",
                            ![p].purchaseOrders =
                               [i \in 1 .. Len(rows) |-> poSummary(rows[i])]]
  /\ UNCHANGED <<appSettings, saved, calc, page, orderVars>>

\* the create_purchase_order action, lines 271-314, for a session of the shop:
\* the order and its items are stored and the answer says so, or the create
\* throws (dbUp: the database answers) and the answer is success: false
CreatePurchaseOrder(shop, vendor, products, dbUp) ==
  /\ Len(purchaseOrders) < MaxPurchaseOrders
  /\ LET ok == dbUp /\ ~createThrows(products)
         id == Len(purchaseOrders) + 1
     IN  /\ purchaseOrders' =
              IF ok
              THEN Append(purchaseOrders,
                          PurchaseOrder(id, shop, vendor, products))
              ELSE purchaseOrders
         /\ fetcher' =
              [state |-> "idle", shop |-> shop, vendor |-> vendor,
               products |-> products,
               data |-> << [success |-> ok,
                            purchaseOrderId |-> IF ok THEN id ELSE 0,
                            error |-> IF ok THEN ""
                                      ELSE "Failed to create purchase order"] >>]
  /\ UNCHANGED <<appSettings, req, saved, calc, page, poPage, dashboard>>

NextOrders ==
  \/ \E p \in OrderRequests :
       \/ \E shop \in Shops : FindUnique(p, "loader", shop)
       \/ \E shop \in Shops : FindUnique(p, "purchase-orders", shop)
       \/ CreateDefault(p)
       \/ \E shop \in Shops, form \in OrderForms : UpdateSettings(p, shop, form)
       \/ FindMany(p)
       \/ Respond(p)
  \/ \E shop \in Shops, sub \in Submissions, dbUp \in BOOLEAN :
       CreatePurchaseOrder(shop, sub.vendor, sub.products, dbUp)

SpecOrders == Init /\ [][NextOrders]_vars

(***************************************************************************)
(* The purchase-orders page (PurchaseOrdersPage): the products of its      *)
(* loader, the vendor filter, the modal with its selection, the toast and  *)
(* the fetcher that posts the create_purchase_order form.                  *)
(***************************************************************************)
ProductData(sku, title, vendor, suggestedQuantity, stockStatus) ==
  [id |-> sku, sku |-> sku, title |-> title, vendor |-> vendor,
   suggestedQuantity |-> suggestedQuantity, selected |-> FALSE,
   orderQuantity |-> suggestedQuantity, stockStatus |-> stockStatus]

\* the products the loader answered with, sorted by vendor and then by
\* suggested quantity, highest first
LoadedProducts ==
  << ProductData("SKU-A", "Widget", "Acme", 5, "low"),
     ProductData("SKU-B", "Gadget", "Acme", 3, "medium"),
     ProductData("SKU-C", "Bolt", "Bolt Co", 2, "good"),
     ProductData("SKU-D", "Nut", "Bolt Co", 0, "good") >>

NoSelectionToast == "Please select at least one product"
VendorToast == "All selected products must be from the same vendor"
SuccessToast == "Purchase order created successfully!"

\* the quantities typed into the quantity field: parseInt(value) || 0
TypedQuantities == {0}

vendorOptions(products) ==
  {"all"} \cup {products[i].vendor : i \in 1 .. Len(products)}

\* filteredProducts and productsNeedingReorder, lines 338-346
productsNeedingReorder(products, selectedVendor) ==
  LET shown(item) ==
        /\ selectedVendor = "all" \/ item.vendor = selectedVendor
        /\ item.suggestedQuantity > 0 \/ item.stockStatus # "good"
  IN  SelectSeq(products, shown)

Range(seq) == {seq[i] : i \in 1 .. Len(seq)}

\* selectedProducts.every(p => p.vendor === vendor)
allSameVendor(selectedProducts) ==
  \A i \in 1 .. Len(selectedProducts) :
    selectedProducts[i].vendor = selectedProducts[1].vendor

\* JSON.stringify(selectedProducts.map(...)) as the action parses it
stringify(selectedProducts) ==
  [i \in 1 .. Len(selectedProducts) |->
     Product(selectedProducts[i].sku, selectedProducts[i].title,
             <<selectedProducts[i].orderQuantity>>)]

\* the page is open in a session of the shop: its loader has made sure of the
\* settings row and answered with the products; the table holds the orders
\* made before
InitOrderPage ==
  /\ req = [p \in Requests |-> IdleReq]
  /\ saved = [shop \in Shops |-> <<>>]
  /\ calc = IdleCalc
  /\ page = IdlePage
  /\ dashboard = IdleDashboard
  /\ fetcher = IdleFetcher
  /\ purchaseOrders =
       [i \in 1 .. MaxPurchaseOrders - 1 |->
          PurchaseOrder(i, "b.myshopify.com", "", <<>>)]
  /\ \E shop \in Shops :
       /\ appSettings = create({}, Row(shop, DefaultSettings))
       /\ poPage = [IdlePoPage EXCEPT !.shop = shop,
                                      !.products = LoadedProducts]

\* the vendor filter, onChange={setSelectedVendor}
setSelectedVendor(vendor) ==
  /\ ~poPage.isCreateModalOpen
  /\ poPage' = [poPage EXCEPT !.selectedVendor = vendor]
  /\ UNCHANGED <<appSettings, req, saved, calc, page, purchaseOrders, fetcher,
                 dashboard>>

\* the Create Purchase Order button of the title bar, lines 455-461
OpenModal ==
  /\ ~poPage.isCreateModalOpen
  /\ productsNeedingReorder(poPage.products, poPage.selectedVendor) # <<>>
  /\ poPage' = [poPage EXCEPT !.isCreateModalOpen = TRUE]
  /\ UNCHANGED <<appSettings, req, saved, calc, page, purchaseOrders, fetcher,
                 dashboard>>

\* the Add to PO button of a product, lines 567-574
AddToPO(product) ==
  /\ ~poPage.isCreateModalOpen
  /\ product \in Range(productsNeedingReorder(poPage.products,
                                              poPage.selectedVendor))
  /\ poPage' = [poPage EXCEPT
       !.selectedProducts = << [product EXCEPT !.selected = TRUE] >>,
       !.isCreateModalOpen = TRUE]
  /\ UNCHANGED <<appSettings, req, saved, calc, page, purchaseOrders, fetcher,
                 dashboard>>

\* onClose and Cancel of the modal, lines 589-606
CloseModal ==
  /\ poPage.isCreateModalOpen
  /\ poPage' = [poPage EXCEPT !.isCreateModalOpen = FALSE,
                              !.selectedProducts = <<>>]
  /\ UNCHANGED <<appSettings, req, saved, calc, page, purchaseOrders, fetcher,
                 dashboard>>

\* a checkbox of the modal is ticked or cleared
handleProductSelect(product, isSelected) ==
  /\ poPage.isCreateModalOpen
  /\ product \in Range(productsNeedingReorder(poPage.products,
                                              poPage.selectedVendor))
  /\ isSelected = (\A i \in 1 .. Len(poPage.selectedProducts) :
                     poPage.selectedProducts[i].id # product.id)
  /\ LET kept(p) == p.id # product.id
     IN  poPage' = [poPage EXCEPT !.selectedProducts =
           IF isSelected
           THEN Append(@, [product EXCEPT !.selected = TRUE])
           ELSE SelectSeq(@, kept)]
  /\ UNCHANGED <<appSettings, req, saved, calc, page, purchaseOrders, fetcher,
                 dashboard>>

\* the quantity field of a selected product
handleQuantityChange(productId, quantity) ==
  /\ poPage.isCreateModalOpen
  /\ \E i \in 1 .. Len(poPage.selectedProducts) :
       poPage.selectedProducts[i].id = productId
  /\ poPage' = [poPage EXCEPT !.selectedProducts =
       [i \in 1 .. Len(@) |->
          IF @[i].id = productId THEN [@[i] EXCEPT !.orderQuantity = quantity]
          ELSE @[i]]]
  /\ UNCHANGED <<appSettings, req, saved, calc, page, purchaseOrders, fetcher,
                 dashboard>>

\* a handler that posts whatever is selected
handleCreatePurchaseOrder_noVendorCheck ==
  /\ poPage.isCreateModalOpen
  /\ fetcher.state # "submitting"
  /\ IF poPage.selectedProducts = <<>>
     THEN /\ poPage' = [poPage EXCEPT !.toastMessage = NoSelectionToast,
                                      !.showToast = TRUE]
          /\ UNCHANGED fetcher
     ELSE /\ fetcher' = [fetcher EXCEPT
               !.state = "submitting", !.shop = poPage.shop,
               !.vendor = poPage.selectedProducts[1].vendor,
               !.products = stringify(poPage.selectedProducts)]
          /\ poPage' = [poPage EXCEPT
               !.isCreateModalOpen = FALSE, !.selectedProducts = <<>>,
               !.toastMessage = SuccessToast, !.showToast = TRUE]
  /\ UNCHANGED <<appSettings, req, saved, calc, page, purchaseOrders,
                 dashboard>>

\* the primary action of the modal, lines 362-395; the button is loading
\* while the fetcher is submitting
handleCreatePurchaseOrder ==
  /\ poPage.isCreateModalOpen
  /\ fetcher.state # "submitting"
  /\ IF poPage.selectedProducts = <<>>
     THEN /\ poPage' = [poPage EXCEPT !.toastMessage = NoSelectionToast,
                                      !.showToast = TRUE]
          /\ UNCHANGED fetcher
     ELSE IF ~allSameVendor(poPage.selectedProducts)
     THEN /\ poPage' = [poPage EXCEPT !.toastMessage = VendorToast,
                                      !.showToast = TRUE]
          /\ UNCHANGED fetcher
     ELSE /\ fetcher' = [fetcher EXCEPT
               !.state = "submitting", !.shop = poPage.shop,
               !.vendor = poPage.selectedProducts[1].vendor,
               !.products = stringify(poPage.selectedProducts)]
          /\ poPage' = [poPage EXCEPT
               !.isCreateModalOpen = FALSE, !.selectedProducts = <<>>,
               !.toastMessage = SuccessToast, !.showToast = TRUE]
  /\ UNCHANGED <<appSettings, req, saved, calc, page, purchaseOrders,
                 dashboard>>

\* the toast is dismissed, onDismiss={() => setShowToast(false)}
DismissToast ==
  /\ poPage.showToast
  /\ poPage' = [poPage EXCEPT !.showToast = FALSE]
  /\ UNCHANGED <<appSettings, req, saved, calc, page, purchaseOrders, fetcher,
                 dashboard>>

\* the action answers the form the fetcher posted
ActionAnswers ==
  /\ fetcher.state = "submitting"
  /\ \E dbUp \in BOOLEAN :
       CreatePurchaseOrder(fetcher.shop, fetcher.vendor, fetcher.products,
                           dbUp)

NextOrderPage ==
  \/ \E vendor \in vendorOptions(poPage.products) : setSelectedVendor(vendor)
  \/ OpenModal
  \/ \E product \in Range(poPage.products) : AddToPO(product)
  \/ CloseModal
  \/ \E product \in Range(poPage.products), isSelected \in BOOLEAN :
       handleProductSelect(product, isSelected)
  \/ \E product \in Range(poPage.products), quantity \in TypedQuantities :
       handleQuantityChange(product.id, quantity)
  \/ handleCreatePurchaseOrder
  \/ DismissToast
  \/ ActionAnswers

SpecOrderPage == InitOrderPage /\ [][NextOrderPage]_vars

(***************************************************************************)
(* The dashboard's analytics (app/routes/app._index.tsx, loader): the      *)
(* products query answers with the variants that have a SKU, or fails; the *)
(* loader combines each variant's stock with the quantity the orders sum   *)
(* gave for its SKU and derives the low-stock list, the top sellers and    *)
(* the store health.  A variant of the model is its stock and its sales;   *)
(* its SKU is its place in the answer.  Sales values are left out.         *)
(***************************************************************************)
\* the most variants with a SKU a shop of the model has
MaxVariants == 5

\* the stock and the sales of the last 90 days of the kinds of variants
VariantKinds ==
  << [inventoryQuantity |-> 0, sold |-> 90],
     [inventoryQuantity |-> 1, sold |-> 13],
     [inventoryQuantity |-> 7, sold |-> 90],
     [inventoryQuantity |-> 14, sold |-> 90],
     [inventoryQuantity |-> 23, sold |-> 0] >>

\* the shops' variants, kind by kind
Inventories ==
  LET Kinds == 1 .. Len(VariantKinds)
      ordered(s) == \A i \in 1 .. Len(s) - 1 : s[i] <= s[i + 1]
  IN  { [i \in 1 .. Len(s) |-> VariantKinds[s[i]]] :
          s \in {t \in UNION {[1 .. n -> Kinds] : n \in 0 .. MaxVariants} :
                   ordered(t)} }

\* combinedData.push(...), lines 202-218
InventoryData(sku, variant) ==
  [id |-> sku, sku |-> sku, currentStock |-> variant.inventoryQuantity,
   salesLast90Days |-> variant.sold,
   salesVelocity |-> roundedVelocity(variant.sold)]

\* item.salesVelocity > 0 ? item.currentStock / item.salesVelocity : Infinity
daysOfStock(item) ==
  IF FLess(FZero, item.salesVelocity)
  THEN FDiv(FromInt(item.currentStock), item.salesVelocity)
  ELSE Infinity

\* Array.prototype.sort by a comparator that subtracts keys; the sort is
\* stable: x goes behind the entries whose key is not above its own
RECURSIVE insertSorted(_, _)
insertSorted(sorted, x) ==
  IF sorted = <<>> THEN <<x>>
  ELSE IF FLess(x.key, sorted[Len(sorted)].key)
  THEN Append(insertSorted(SubSeq(sorted, 1, Len(sorted) - 1), x),
              sorted[Len(sorted)])
  ELSE Append(sorted, x)

RECURSIVE sortByKey(_, _)
sortByKey(entries, n) ==
  IF n = 0 THEN <<>>
  ELSE insertSorted(sortByKey(entries, n - 1), entries[n])

\* combinedData.reduce((sum, item) => sum + item[field], 0)
RECURSIVE sumField(_, _, _)
sumField(items, field, n) ==
  IF n = 0 THEN 0 ELSE sumField(items, field, n - 1) + items[n][field]

\* lines 246-253
storeHealthOf(criticalItems, warningItems) ==
  IF criticalItems > 0 THEN "critical"
  ELSE IF warningItems > 3 THEN "warning"
  ELSE IF warningItems > 0 THEN "good"
  ELSE "excellent"

\* lines 220-263
summaryOf(combinedData) ==
  LET byDays == [i \in 1 .. Len(combinedData) |->
                   [item |-> combinedData[i],
                    key |-> daysOfStock(combinedData[i])]]
      low(e) == FLess(e.key, FromInt(14))
      lowStockItems == sortByKey(SelectSeq(byDays, low),
                                 Len(SelectSeq(byDays, low)))
      sells(item) == item.salesLast90Days > 0
      sellers == SelectSeq(combinedData, sells)
      bySales == [i \in 1 .. Len(sellers) |->
                    [item |-> sellers[i],
                     key |-> FromInt(-sellers[i].salesLast90Days)]]
      topSellingItems == First(sortByKey(bySales, Len(bySales)), 5)
      critical(e) == FLess(e.key, FromInt(7))
      warning(e) == ~FLess(e.key, FromInt(7)) /\ FLess(e.key, FromInt(14))
  IN  [totalProducts |-> Len(combinedData),
       totalStock |-> sumField(combinedData, "currentStock",
                               Len(combinedData)),
       totalSales |-> sumField(combinedData, "salesLast90Days",
                               Len(combinedData)),
       lowStockItems |->
          [i \in 1 .. Len(lowStockItems) |-> lowStockItems[i].item],
       topSellingItems |->
          [i \in 1 .. Len(topSellingItems) |-> topSellingItems[i].item],
       storeHealth |-> storeHealthOf(Len(SelectSeq(byDays, critical)),
                                     Len(SelectSeq(byDays, warning)))]

\* the dashboard is requested for a shop with these variants
InitDashboard ==
  /\ appSettings = {}
  /\ req = [p \in Requests |-> IdleReq]
  /\ saved = [shop \in Shops |-> <<>>]
  /\ calc = IdleCalc
  /\ page = IdlePage
  /\ purchaseOrders = <<>>
  /\ fetcher = IdleFetcher
  /\ poPage = IdlePoPage
  /\ \E variants \in Inventories :
       dashboard = [IdleDashboard EXCEPT !.pc = "products",
                                         !.variants = variants]

\* the products query throws or answers with errors: the catch of lines
\* 271-287 answers
ProductsFail ==
  /\ dashboard.pc = "products"
  /\ dashboard' = [dashboard EXCEPT
       !.pc = "done",
       !.response = << [inventory |-> <<>>,
                        summary |-> [totalProducts |-> 0, totalStock |-> 0,
                                     totalSales |-> 0, lowStockItems |-> <<>>,
                                     topSellingItems |-> <<>>,
                                     storeHealth |-> "critical"],
                        error |-> "Failed to load inventory data"] >>]
  /\ UNCHANGED <<appSettings, req, saved, calc, page, purchaseOrders, fetcher,
                 poPage>>

\* the products query answers and the sales are summed
ProductsResponse ==
  /\ dashboard.pc = "products"
  /\ dashboard' = [dashboard EXCEPT !.pc = "combine"]
  /\ UNCHANGED <<appSettings, req, saved, calc, page, purchaseOrders, fetcher,
                 poPage>>

\* lines 199-269: the combined data, the summary and the answer
DashboardAnswers ==
  /\ dashboard.pc = "combine"
  /\ LET combinedData ==
           [i \in 1 .. Len(dashboard.variants) |->
              InventoryData(i, dashboard.variants[i])]
     IN  dashboard' = [dashboard EXCEPT
           !.pc = "done",
           !.response = << [inventory |-> combinedData,
                            summary |-> summaryOf(combinedData),
                            error |-> "null"] >>]
  /\ UNCHANGED <<appSettings, req, saved, calc, page, purchaseOrders, fetcher,
                 poPage>>

NextDashboard == ProductsFail \/ ProductsResponse \/ DashboardAnswers

SpecDashboard == InitDashboard /\ [][NextDashboard]_vars

TypeOK ==
  /\ \A r \in appSettings : r.shop \in Shops
  /\ \A p \in Requests : req[p].pc \in {"idle", "create", "done", "failed", "loaded"}
  /\ calc.stockStatus \in {"", "low", "medium", "good"}
  /\ page.stockStatus \in {"", "low", "medium", "good"}

(***************************************************************************)
(* The calculator's contract in exact arithmetic.  The model's velocity is *)
(* salesLast90Days / 90 and its reorder point the decimal n/d of           *)
(* calc.reorderPointText, so every quantity below is a ratio of integers.  *)
(***************************************************************************)
CeilDiv(a, b) == IF a >= 0 THEN (a + b - 1) \div b ELSE -((-a) \div b)

StatusCalled == "getStockStatus" \in calc.called
QuantityCalled == "calculateSuggestedQuantity" \in calc.called

ReorderNum == calc.reorderPointText[1]
ReorderDen == IF Len(calc.reorderPointText) = 1 THEN 1 ELSE calc.reorderPointText[2]

\* the status of currentStock / (salesLast90Days / 90) days of stock
ExactStockStatus ==
  LET stockDays == calc.currentStock * SalesWindowDays
      sales == calc.salesLast90Days
  IN  IF sales = 0 THEN "good"
      ELSE IF stockDays < calc.settings.lowStockThreshold * sales THEN "low"
      ELSE IF stockDays < calc.settings.mediumStockThreshold * sales THEN "medium"
      ELSE "good"

ExactTargetStock ==
  CeilDiv(calc.salesLast90Days * calc.settings.stockCoverageDays, SalesWindowDays)

ExactRawSuggestion == Max(0, ExactTargetStock - calc.currentStock)

ExactSuggestedQuantity ==
  CeilDiv(ExactRawSuggestion * (ReorderDen + ReorderNum), ReorderDen)

\* C1: for currentStock >= 0, salesVelocity >= 0 and 0 < lowStockThreshold <
\* mediumStockThreshold, getStockStatus returns 'low' exactly when
\* currentStock / salesVelocity < lowStockThreshold, 'medium' exactly when it
\* is at least lowStockThreshold and below mediumStockThreshold, and 'good'
\* otherwise (also when salesVelocity is 0).
C1_StatusByDaysOfStock ==
  ( /\ StatusCalled
    /\ calc.currentStock >= 0
    /\ 0 < calc.settings.lowStockThreshold
    /\ calc.settings.lowStockThreshold < calc.settings.mediumStockThreshold )
  => calc.stockStatus = ExactStockStatus

\* C2: for salesVelocity > 0, calculateSuggestedQuantity returns
\* ceiling(max(0, ceiling(salesVelocity * stockCoverageDays) - currentStock)
\*         * (1 + reorderPoint)).
C2_QuantityFormula ==
  (QuantityCalled /\ calc.salesLast90Days > 0)
  => calc.suggestedQuantity = ExactSuggestedQuantity

\* C3: when salesVelocity is 0, calculateSuggestedQuantity returns 0 and
\* getStockStatus returns 'good', whatever currentStock and the settings are.
C3_ZeroVelocity ==
  calc.salesLast90Days = 0
  => /\ QuantityCalled => calc.suggestedQuantity = 0
     /\ StatusCalled => calc.stockStatus = "good"

C3_Witness ==
  /\ calc.salesLast90Days = 0
  /\ calc.currentStock < 0
  /\ calc.settings.lowStockThreshold < 0
  /\ StatusCalled /\ QuantityCalled
  /\ calc.suggestedQuantity = 0
  /\ calc.stockStatus = "good"

\* C4: for salesVelocity > 0 the result of calculateSuggestedQuantity is a
\* non-negative integer, for all currentStock and all settings.
C4_NonNegative ==
  (QuantityCalled /\ calc.salesLast90Days > 0)
  => calc.suggestedQuantity \in Nat

\* C5: with salesVelocity and settings fixed, calculateSuggestedQuantity is
\* non-increasing in currentStock.
C5_NonIncreasingInStock ==
  QuantityCalled
  => \A stock \in Stocks :
       stock >= calc.currentStock
       => calculateSuggestedQuantity(stock, salesVelocity(calc.salesLast90Days),
                                     calc.settings) <= calc.suggestedQuantity

\* C6: with currentStock and settings fixed, calculateSuggestedQuantity is
\* non-decreasing in salesVelocity, from velocity 0 on.
C6_NonDecreasingInVelocity ==
  QuantityCalled
  => \A sales \in Sales :
       sales >= calc.salesLast90Days
       => calculateSuggestedQuantity(calc.currentStock, salesVelocity(sales),
                                     calc.settings) >= calc.suggestedQuantity

\* C7: calculateSuggestedQuantity with currentStock 10, salesVelocity 2,
\* stockCoverageDays 30 and reorderPoint 0.1 returns 55.
C7_ReorderExample ==
  ( /\ QuantityCalled
    /\ calc.currentStock = 10
    /\ calc.salesLast90Days = 2 * SalesWindowDays
    /\ calc.settings.stockCoverageDays = 30
    /\ calc.reorderPointText = <<1, 10>> )
  => calc.suggestedQuantity = 55

\* C8: calculateSuggestedQuantity never under-orders: for salesVelocity > 0,
\* currentStock >= 0 and reorderPoint >= 0, currentStock + result is at least
\* salesVelocity * stockCoverageDays and result is at least
\* max(0, targetStock - currentStock) * (1 + reorderPoint); velocity 1/3 with
\* stockCoverageDays 10 orders 4 for an empty stock, not 3.
C8_NeverUnderOrders ==
  ( /\ QuantityCalled
    /\ calc.salesLast90Days > 0
    /\ calc.currentStock >= 0
    /\ ReorderNum >= 0 )
  => /\ (calc.currentStock + calc.suggestedQuantity) * SalesWindowDays
          >= calc.salesLast90Days * calc.settings.stockCoverageDays
     /\ calc.suggestedQuantity * ReorderDen
          >= ExactRawSuggestion * (ReorderDen + ReorderNum)
     /\ ( /\ calc.salesLast90Days * 3 = SalesWindowDays
          /\ calc.settings.stockCoverageDays = 10
          /\ calc.currentStock = 0
          /\ ReorderNum = 0 )
        => calc.suggestedQuantity = 4

C8_Witness ==
  /\ QuantityCalled
  /\ calc.salesLast90Days * 3 = SalesWindowDays
  /\ calc.settings.stockCoverageDays = 10
  /\ calc.currentStock = 0
  /\ ReorderNum = 0
  /\ calc.suggestedQuantity = 4

(***************************************************************************)
(* The settings store.                                                     *)
(***************************************************************************)
RowsOf(rows, shop) == {r \in rows : r.shop = shop}

IsDefault(s) ==
  /\ s.stockCoverageDays = 30
  /\ s.lowStockThreshold = 7
  /\ s.mediumStockThreshold = 14
  /\ s.reorderPoint = parseFloat(<<1, 10>>, <<>>)
  /\ s.emailNotifications = TRUE

\* C10: getAppSettings (and the settings loader's copy of it) is
\* get-or-create.  The read of a shop that has a record returns that record's
\* values and leaves the table as it is; the insert for a shop that has no
\* record adds one record, with the default values, and returns it; and no
\* step of either ever changes or replaces a record that is there.
C10_GetOrCreate ==
  [][\A p \in Requests :
       /\ ( /\ req[p].pc = "idle"
            /\ req'[p].kind \in {"getAppSettings", "loader"} )
          => \A r \in RowsOf(appSettings, req'[p].shop) :
               /\ req'[p].pc = "done"
               /\ req'[p].settings = SettingsOf(r)
               /\ appSettings' = appSettings
       /\ ( /\ req[p].pc = "create"
            /\ req'[p].pc # "create" )
          => IF RowsOf(appSettings, req[p].shop) = {}
             THEN /\ req'[p].pc = "done"
                  /\ IsDefault(req'[p].settings)
                  /\ \E r \in appSettings' :
                       /\ r.shop = req[p].shop
                       /\ IsDefault(r)
                       /\ appSettings' = appSettings \cup {r}
             ELSE appSettings' = appSettings
    ]_vars

C10_Witness ==
  \E p, q \in Requests :
    /\ req[p].kind = "getAppSettings" /\ req[p].pc = "done"
    /\ req[p].created /\ IsDefault(req[p].settings)
    /\ req[q].kind = "getAppSettings" /\ req[q].pc = "done"
    /\ ~req[q].created /\ req[q].settings.stockCoverageDays = 45
    /\ \E r \in appSettings : r.shop = req[q].shop /\ SettingsOf(r) = req[q].settings

\* C11: after any sequence of getAppSettings calls, settings-page loads and
\* update_settings actions, every stored AppSettings record has
\* lowStockThreshold < mediumStockThreshold.
C11_ThresholdsOrdered ==
  \A r \in appSettings : r.lowStockThreshold < r.mediumStockThreshold

C11_Witness ==
  /\ \E r \in appSettings : r.lowStockThreshold = 15 /\ r.mediumStockThreshold = 30
  /\ \E r \in appSettings : r.lowStockThreshold = 7 /\ r.mediumStockThreshold = 14
  /\ \E p \in Requests :
       /\ req[p].kind = "update_settings" /\ req[p].pc = "done"
       /\ req[p].error = ThresholdError
       /\ req[p].settings.lowStockThreshold = 14
       /\ req[p].settings.mediumStockThreshold = 7

\* C12: after any sequence of getAppSettings calls, settings-page loads and
\* update_settings actions, every stored AppSettings record has
\* stockCoverageDays between 1 and 365 inclusive.
C12_CoverageInRange ==
  \A r \in appSettings : r.stockCoverageDays >= 1 /\ r.stockCoverageDays <= 365

C12_Witness ==
  /\ \E r \in appSettings : r.stockCoverageDays = 365
  /\ \E p, q \in Requests :
       /\ req[p].kind = "update_settings" /\ req[p].pc = "done"
       /\ req[p].form.stockCoverageDays = <<0>>
       /\ req[p].error = CoverageError
       /\ req[p].shop = req[q].shop
       /\ req[q].kind = "update_settings" /\ req[q].pc = "done"
       /\ req[q].form.stockCoverageDays = NotANumber
       /\ ~req[q].success

\* C13: after any sequence of getAppSettings calls, settings-page loads and
\* update_settings actions, every stored AppSettings record has reorderPoint
\* between 0 and 1 inclusive.
C13_ReorderPointInRange ==
  \A r \in appSettings :
    /\ ~FLess(r.reorderPoint, FZero)
    /\ ~FLess(FromInt(1), r.reorderPoint)

\* C14: every settings record that the purchase-orders loader gets from
\* getAppSettings, to pass it to getStockStatus and
\* calculateSuggestedQuantity, has lowStockThreshold > 0 and
\* mediumStockThreshold > 0, after any sequence of update_settings actions.
C14_PositiveThresholds ==
  \A p \in Requests :
    (req[p].kind = "getAppSettings" /\ req[p].pc = "done")
    => /\ req[p].settings.lowStockThreshold > 0
       /\ req[p].settings.mediumStockThreshold > 0

\* C15: an update_settings action whose stockCoverageDays is outside 1..365,
\* or whose lowStockThreshold >= mediumStockThreshold, answers success: false
\* with the error message of a check it fails, and leaves every stored
\* settings record as it was.
C15_RejectsInvalid ==
  [][\A p \in Requests :
       (req[p].pc = "idle" /\ req'[p].kind = "update_settings")
       => LET s == parseForm(req'[p].form)
              outside == /\ "stockCoverageDays" \notin s.nan
                         /\ s.stockCoverageDays \notin 1 .. 365
              inverted == /\ {"lowStockThreshold", "mediumStockThreshold"}
                               \cap s.nan = {}
                          /\ ~(s.lowStockThreshold < s.mediumStockThreshold)
          IN  (outside \/ inverted)
              => /\ req'[p].pc = "done"
                 /\ req'[p].success = FALSE
                 /\ \/ outside /\ req'[p].error = CoverageError
                    \/ inverted /\ req'[p].error = ThresholdError
                 /\ appSettings' = appSettings
    ]_vars

C15_Witness ==
  \E p, q \in Requests :
    /\ req[p].kind = "update_settings" /\ req[p].pc = "done"
    /\ req[p].form.stockCoverageDays = <<0>>
    /\ ~req[p].success /\ req[p].error = CoverageError
    /\ req[q].kind = "update_settings" /\ req[q].pc = "done"
    /\ req[q].form.lowStockThreshold = <<14>>
    /\ ~req[q].success /\ req[q].error = ThresholdError
    /\ req[p].shop = req[q].shop
    /\ \E r \in appSettings : r.shop = req[p].shop /\ r.stockCoverageDays = 45

\* C16: when two requests for the same shop, which has no settings record
\* yet, run getAppSettings concurrently (both read before either inserts),
\* both calls return the default settings and neither fails.
C16_ConcurrentGetOrCreate ==
  \A p, q \in Requests :
    ( /\ p # q
      /\ req[p].kind = "getAppSettings" /\ req[q].kind = "getAppSettings"
      /\ req[p].shop = req[q].shop
      /\ req[p].found = NoRow /\ req[q].found = NoRow
      /\ req[p].pc \in {"done", "failed"} /\ req[q].pc \in {"done", "failed"}
      /\ saved[req[p].shop] = <<>> )
    => /\ req[p].pc = "done" /\ IsDefault(req[p].settings)
       /\ req[q].pc = "done" /\ IsDefault(req[q].settings)

\* C19: in every reachable state of the settings store, under any
\* interleaving of getAppSettings, the settings-page loader and
\* update_settings actions, there is at most one AppSettings record per shop.
C19_OneRowPerShop ==
  \A shop \in Shops : Cardinality(RowsOf(appSettings, shop)) <= 1

C19_Witness ==
  /\ \A shop \in Shops : Cardinality(RowsOf(appSettings, shop)) = 1
  /\ \E p \in Requests :
       /\ req[p].kind \in {"getAppSettings", "loader"}
       /\ req[p].found = NoRow /\ ~req[p].created
       /\ req[p].pc \in {"done", "failed"}
       /\ req[p].error # ""

\* what parseInt reads of a submitted field: the digits before the decimal
\* point, or the default of a field submitted empty or not at all
LeadingInteger(text, default) ==
  IF text = <<>> THEN default
  ELSE IF Len(text) = 1 THEN text[1]
  ELSE IF text[1] >= 0 THEN text[1] \div text[2]
  ELSE -((-text[1]) \div text[2])

\* request p starts a getAppSettings or a settings-page load in this step, for
\* a shop whose settings an update_settings has saved
ReadAfterUpdate(p) ==
  /\ req[p].pc = "idle"
  /\ req'[p].kind \in {"getAppSettings", "loader"}
  /\ saved[req'[p].shop] # <<>>

\* C20 as stated: after an update_settings answered success: true for a shop,
\* the next getAppSettings or settings-page load for that shop returns exactly
\* the submitted stockCoverageDays, lowStockThreshold, mediumStockThreshold,
\* reorderPoint and emailNotifications (for a form that submits all five).
C20_RoundTrip ==
  [][\A p \in Requests :
       ( /\ ReadAfterUpdate(p)
         /\ \A f \in {"stockCoverageDays", "lowStockThreshold",
                       "mediumStockThreshold", "reorderPoint"} :
              saved[req'[p].shop][1][f] # <<>>
         /\ saved[req'[p].shop][1].emailNotifications # "" )
       => LET form == saved[req'[p].shop][1]
              got == req'[p].settings
          IN  /\ req'[p].pc = "done"
              /\ <<got.stockCoverageDays>> = form.stockCoverageDays
              /\ <<got.lowStockThreshold>> = form.lowStockThreshold
              /\ <<got.mediumStockThreshold>> = form.mediumStockThreshold
              /\ numberToString(got.reorderPoint) = form.reorderPoint
              /\ booleanToString(got.emailNotifications) = form.emailNotifications
    ]_vars

\* C20 amended: after an update_settings answered success: true for a shop,
\* the next getAppSettings or settings-page load for that shop returns the
\* submitted values as the action read them: the digits before the decimal
\* point of stockCoverageDays, lowStockThreshold and mediumStockThreshold, the
\* submitted reorderPoint, emailNotifications true exactly for the text
\* 'true', and 30, 7, 14 and 0.1 for a field submitted empty or not at all.
C20_RoundTripAsParsed ==
  [][\A p \in Requests :
       ReadAfterUpdate(p)
       => LET form == saved[req'[p].shop][1]
              got == req'[p].settings
          IN  /\ req'[p].pc = "done"
              /\ got.stockCoverageDays = LeadingInteger(form.stockCoverageDays, 30)
              /\ got.lowStockThreshold = LeadingInteger(form.lowStockThreshold, 7)
              /\ got.mediumStockThreshold = LeadingInteger(form.mediumStockThreshold, 14)
              /\ numberToString(got.reorderPoint)
                   = (IF form.reorderPoint = <<>> THEN <<1, 10>> ELSE form.reorderPoint)
              /\ got.emailNotifications = (form.emailNotifications = "true")
    ]_vars

C20_Witness ==
  \E p, q \in Requests :
    /\ req[p].kind = "getAppSettings" /\ req[p].pc = "done"
    /\ saved[req[p].shop] # <<>>
    /\ saved[req[p].shop][1].stockCoverageDays = <<365>>
    /\ req[p].settings.stockCoverageDays = 365
    /\ req[p].settings.lowStockThreshold = -3
    /\ numberToString(req[p].settings.reorderPoint) = <<-2>>
    /\ req[q].kind = "loader" /\ req[q].pc = "done"
    /\ saved[req[q].shop] # <<>>
    /\ saved[req[q].shop][1].stockCoverageDays = <<457, 10>>
    /\ req[q].settings.stockCoverageDays = 45
    /\ numberToString(req[q].settings.reorderPoint) = <<25, 100>>
    /\ req[q].settings.emailNotifications = FALSE

(***************************************************************************)
(* The pages.                                                              *)
(***************************************************************************)
StoredSettingsOf(shop) == SettingsOf(findUnique(appSettings, shop))

\* C17: for every SKU, the stock status shown on the inventory list and used
\* by the dashboard is the one defined by the shop's stored settings:
\* getStockStatus(currentStock, salesLast90Days / 90, storedSettings), the
\* status the purchase-orders page shows for the same SKU.
C17_StatusBySettings ==
  (page.pc = "done" /\ page.kind \in {"inventory", "dashboard"})
  => page.stockStatus
       = getStockStatus(page.currentStock, salesVelocity(page.salesLast90Days),
                        StoredSettingsOf(page.shop))

\* the quantity of the SKU sold by the shop's orders of the last 90 days
SoldInWindow ==
  IF page.orders.age <= SalesWindowDays
  THEN page.orders.count * page.orders.quantity
  ELSE 0

\* C18: for every SKU returned by the products query, the salesLast90Days
\* used to derive salesVelocity equals the sum of the line-item quantities of
\* that SKU over all of the shop's orders created in the trailing 90 days
\* (when the orders query answers).
C18_SalesOfWindow ==
  (page.pc = "done" /\ page.answered)
  => page.salesLast90Days = SoldInWindow

(***************************************************************************)
(* The purchase orders.                                                    *)
(***************************************************************************)
PurchaseOrdersOf(rows, shop) ==
  LET ofShop(r) == r.shop = shop
  IN  SelectSeq(rows, ofShop)

\* the shops whose sessions act in a step: those of the requests that move
\* and that of the form the action answers
ActingShops ==
  {req[p].shop : p \in {q \in Requests : req'[q] # req[q]}}
    \cup {req'[p].shop : p \in {q \in Requests : req'[q] # req[q]}}
    \cup (IF fetcher' # fetcher THEN {fetcher'.shop} ELSE {})

\* C21: a step changes the settings row or the purchase orders of a shop
\* only when a session of that shop acts in it, and what the purchase-orders
\* loader returns are purchase orders of its session's shop
C21_ShopIsolation ==
  /\ [](\A p \in Requests :
          req[p].pc = "loaded" =>
            \A i \in 1 .. Len(req[p].purchaseOrders) :
              \E j \in 1 .. Len(purchaseOrders) :
                /\ purchaseOrders[j].id = req[p].purchaseOrders[i].id
                /\ purchaseOrders[j].shop = req[p].shop)
  /\ [][\A shop \in Shops :
          (\/ RowsOf(appSettings', shop) # RowsOf(appSettings, shop)
           \/ PurchaseOrdersOf(purchaseOrders', shop)
                # PurchaseOrdersOf(purchaseOrders, shop))
            => shop \in ActingShops]_vars

\* the loader of one shop has answered with its purchase order while the
\* other shop has a purchase order and settings of its own
C21_Witness ==
  \E p \in Requests :
    /\ req[p].pc = "loaded"
    /\ req[p].purchaseOrders # <<>>
    /\ \E other \in Shops \ {req[p].shop} :
         /\ PurchaseOrdersOf(purchaseOrders, other) # <<>>
         /\ RowsOf(appSettings, other) # {}
         /\ RowsOf(appSettings, other) # RowsOf(appSettings, req[p].shop)

\* the quantities of the first n stored items, summed
RECURSIVE StoredQuantity(_, _)
StoredQuantity(items, n) ==
  IF n = 0 THEN 0 ELSE StoredQuantity(items, n - 1) + items[n].quantity

\* C22: the totalItems of every stored purchase order is the sum of the
\* quantities of its stored items
C22_TotalItems ==
  \A i \in 1 .. Len(purchaseOrders) :
    purchaseOrders[i].totalItems
      = StoredQuantity(purchaseOrders[i].items, Len(purchaseOrders[i].items))

\* an order of two items with different quantities is stored, and so is an
\* order without items
C22_Witness ==
  /\ \E i \in 1 .. Len(purchaseOrders) :
       /\ Len(purchaseOrders[i].items) = 2
       /\ purchaseOrders[i].items[1].quantity
            # purchaseOrders[i].items[2].quantity
       /\ purchaseOrders[i].totalItems # Len(purchaseOrders[i].items)
  /\ \E i \in 1 .. Len(purchaseOrders) : purchaseOrders[i].items = <<>>

(***************************************************************************)
(* The purchase-orders page.                                               *)
(***************************************************************************)
\* at least one product is selected and all of them have one vendor
Submittable(selectedProducts) ==
  /\ selectedProducts # <<>>
  /\ \A i, j \in 1 .. Len(selectedProducts) :
       selectedProducts[i].vendor = selectedProducts[j].vendor

\* C23: the fetcher starts to submit only from a selection of at least one
\* product, all of one vendor, and with that vendor; the create handler run
\* on any other selection submits nothing and shows the toast that says why
C23_SubmitsOneVendor ==
  [][/\ (fetcher.state # "submitting" /\ fetcher'.state = "submitting") =>
          /\ Submittable(poPage.selectedProducts)
          /\ \A i \in 1 .. Len(poPage.selectedProducts) :
               poPage.selectedProducts[i].vendor = fetcher'.vendor
          /\ Len(fetcher'.products) = Len(poPage.selectedProducts)
     /\ (handleCreatePurchaseOrder /\ ~Submittable(poPage.selectedProducts)) =>
          /\ fetcher' = fetcher
          /\ poPage'.showToast
          /\ poPage'.toastMessage =
               IF poPage.selectedProducts = <<>> THEN NoSelectionToast
               ELSE VendorToast]_vars

\* after an order of two products of one vendor was submitted and answered,
\* a selection of two vendors is turned down with the vendor toast
C23_Witness ==
  /\ fetcher.state = "idle"
  /\ fetcher.data # <<>>
  /\ Len(fetcher.products) = 2
  /\ poPage.isCreateModalOpen
  /\ Len(poPage.selectedProducts) = 2
  /\ ~Submittable(poPage.selectedProducts)
  /\ poPage.showToast
  /\ poPage.toastMessage = VendorToast

\* C24: while the success toast is shown the action has answered the
\* submission with success: true
C24_ToastAfterSuccess ==
  (poPage.showToast /\ poPage.toastMessage = SuccessToast) =>
    /\ fetcher.state = "idle"
    /\ fetcher.data # <<>>
    /\ fetcher.data[1].success

(***************************************************************************)
(* The dashboard.  A variant's days of stock are its stock divided by its  *)
(* velocity, sold / 90; without sales they are infinite.                   *)
(***************************************************************************)
\* the variants with fewer than `below' and at least `from' days of stock
CountDaysOfStock(variants, from, below) ==
  Cardinality({i \in 1 .. Len(variants) :
                 /\ variants[i].sold > 0
                 /\ from * variants[i].sold
                      <= SalesWindowDays * variants[i].inventoryQuantity
                 /\ SalesWindowDays * variants[i].inventoryQuantity
                      < below * variants[i].sold})

\* an item with negative stock has fewer days than any bound
CountBelow(variants, below) ==
  Cardinality({i \in 1 .. Len(variants) :
                 /\ variants[i].sold > 0
                 /\ SalesWindowDays * variants[i].inventoryQuantity
                      < below * variants[i].sold})

ExactStoreHealth(variants) ==
  IF CountBelow(variants, 7) > 0 THEN "critical"
  ELSE IF CountDaysOfStock(variants, 7, 14) > 3 THEN "warning"
  ELSE IF CountDaysOfStock(variants, 7, 14) > 0 THEN "good"
  ELSE "excellent"

\* C25: the store health the dashboard answers with is critical with an item
\* under 7 days of stock, else warning with more than 3 items of 7 to under
\* 14 days, else good with at least one such item, else excellent
C25_StoreHealth ==
  (dashboard.response # <<>> /\ dashboard.response[1].error = "null") =>
    dashboard.response[1].summary.storeHealth
      = ExactStoreHealth(dashboard.variants)

\* C26: in every answer of the dashboard loader the store health is
\* excellent exactly when the list of low-stock items is empty
C26_ExcellentIffNoLowStock ==
  dashboard.response # <<>> =>
    (dashboard.response[1].summary.storeHealth = "excellent"
       <=> dashboard.response[1].summary.lowStockItems = <<>>)

\* C27: a page whose orders query failed answers with the SKU's item, its
\* sales and its velocity 0, and with error null
C27_ContinuesWithoutSales ==
  (page.pc = "done" /\ ~page.answered) =>
    /\ page.error = "null"
    /\ Len(page.products) = 1
    /\ page.products[1].sku = Sku
    /\ page.products[1].currentStock = page.currentStock
    /\ page.products[1].salesLast90Days = 0
    /\ page.products[1].salesVelocity = FZero

\* the purchase-orders page of a shop that sold the SKU within the window
\* has answered without the sales
C27_Witness ==
  /\ page.kind = "purchase-orders"
  /\ page.pc = "done"
  /\ ~page.answered
  /\ page.orders.count > 0
  /\ page.orders.age = 0
  /\ page.products # <<>>
  /\ page.products[1].salesLast90Days = 0

====
